---- MODULE Spec2Model ----
(***************************************************************************)
(* Model of the car-parking game of src/src/components/ParkingGame.jsx.    *)
(*                                                                         *)
(* Numbers are fixed-point integers:                                       *)
(*   positions and lengths   1/1000 of a world unit        ("mm")          *)
(*   velocity                1/1000 of a unit per second                   *)
(*   time, dt                milliseconds                                  *)
(*   angles                  micro-radians                                 *)
(*   cosines and sines       scaled by 10000                               *)
(* With every dt a multiple of 10 ms the velocity, the heading and the     *)
(* travelled distance v*dt are exact; only cos and sin are rounded.        *)
(***************************************************************************)
EXTENDS Integers, Sequences, FiniteSets, TLC

\* ------------------------------------------------------------------ bounds

\* Milliseconds of round time after which no further frame is run.
MaxTime == 1600
\* Key and touch events in one behaviour.
MaxKeyEvents == 1
\* Restarts in one behaviour.
MaxAttempts == 2

\* ------------------------------------------------------------ arithmetic

Abs(n) == IF n < 0 THEN -n ELSE n
\* Math.sign
Sign(n) == IF n > 0 THEN 1 ELSE IF n < 0 THEN -1 ELSE 0
\* Math.min, Math.max
Min(a, b) == IF a < b THEN a ELSE b
Max(a, b) == IF a > b THEN a ELSE b
\* a / b rounded to the nearest integer, halves away from zero (b > 0).
RoundDiv(a, b) == Sign(a) * ((2 * Abs(a) + b) \div (2 * b))
\* JavaScript's %: the remainder has the sign of the dividend (m > 0).
JsRem(a, m) == Sign(a) * (Abs(a) % m)

\* Math.PI in micro-radians.
Pi == 3141593
TwoPi == 2 * Pi

\* sin and cos of t on [0, pi/4], t in 1e-4 rad, result scaled by 10000
\* (Taylor polynomials; the next terms are below the resolution).
SinSmall(t) ==
  LET y == (t * t) \div 10000
  IN  t - RoundDiv(t * y, 60000) + RoundDiv(((t * y) \div 10000) * y, 1200000)
CosSmall(t) ==
  LET y == (t * t) \div 10000
  IN  10000 - RoundDiv(y, 2) + RoundDiv(y * y, 240000)
        - RoundDiv(((y * y) \div 10000) * y, 7200000)
\* sin and cos on [0, pi/2].
SinQ(t) == IF t <= 7854 THEN SinSmall(t) ELSE CosSmall(15708 - t)
CosQ(t) == IF t <= 7854 THEN CosSmall(t) ELSE SinSmall(15708 - t)
\* The angle a (micro-radians) in 1e-4 rad, reduced to [0, 2 pi).
Reduce(a) == RoundDiv(a, 100) % 62832
\* Math.sin and Math.cos, scaled by 10000.
Sin(a) ==
  LET t == Reduce(a)
  IN  IF t <= 15708 THEN SinQ(t)
      ELSE IF t <= 31416 THEN SinQ(31416 - t)
      ELSE IF t <= 47124 THEN -SinQ(t - 31416)
      ELSE -SinQ(62832 - t)
Cos(a) ==
  LET t == Reduce(a)
  IN  IF t <= 15708 THEN CosQ(t)
      ELSE IF t <= 31416 THEN -CosQ(31416 - t)
      ELSE IF t <= 47124 THEN -CosQ(t - 31416)
      ELSE CosQ(62832 - t)
\* c * d for a cosine or sine c (scaled) and a length d, rounded; the product
\* is split so that it stays within 32 bits.
MulTrig(c, d) ==
  Sign(d) * (c * (Abs(d) \div 10000) + RoundDiv(c * (Abs(d) % 10000), 10000))

\* ------------------------------------------------------------- the arena

\* boundsRef: the outer walls and the obstacles, as <<x, y, w, h>> records.
boundsRef == <<
  [x |-> 40000,  y |-> 40000,  w |-> 820000, h |-> 8000],
  [x |-> 40000,  y |-> 512000, w |-> 820000, h |-> 8000],
  [x |-> 40000,  y |-> 40000,  w |-> 8000,   h |-> 480000],
  [x |-> 852000, y |-> 40000,  w |-> 8000,   h |-> 480000],
  [x |-> 210000, y |-> 280000, w |-> 180000, h |-> 20000],
  [x |-> 500000, y |-> 420000, w |-> 220000, h |-> 20000],
  [x |-> 530000, y |-> 220000, w |-> 20000,  h |-> 140000] >>
\* spotRef: the parking spot.
spotRef == [x |-> 720000, y |-> 160000, w |-> 70000, h |-> 32000, angle |-> Pi]
\* The car of the initial render and of reset(): the fixed start pose.
StartCar == [x |-> 140000, y |-> 420000, angle |-> -(Pi \div 2), v |-> 0, steer |-> 0]
\* Math.hypot(car.w, car.h) / 2 - 2 for the 54 x 28 car.
CarRadius == 28414

\* The keys update() reads from keysRef.
DriveKeys == {"ArrowUp", "w", "ArrowDown", "s", "ArrowLeft", "a", "ArrowRight", "d"}
\* The keys the touch buttons press.
TouchKeys == {"ArrowUp", "ArrowDown", "ArrowLeft", "ArrowRight"}

\* ------------------------------------------------------------- geometry

clamp(v, lo, hi) == Max(lo, Min(hi, v))

\* circleRectIntersect with <= for <.
circleRectIntersectLe(cx, cy, r, rect) ==
  LET dx == cx - Max(rect.x, Min(rect.x + rect.w, cx))
      dy == cy - Max(rect.y, Min(rect.y + rect.h, cy))
  IN  IF Abs(dx) > r \/ Abs(dy) > r THEN FALSE
      ELSE dx * dx + dy * dy <= r * r

\* dx*dx + dy*dy < r*r; a distance above r on one axis decides it before the
\* squares are taken, which keeps them within 32 bits.
circleRectIntersect(cx, cy, r, rect) ==
  LET closestX == clamp(cx, rect.x, rect.x + rect.w)
      closestY == clamp(cy, rect.y, rect.y + rect.h)
      dx == cx - closestX
      dy == cy - closestY
  IN  IF Abs(dx) > r \/ Abs(dy) > r THEN FALSE
      ELSE dx * dx + dy * dy < r * r

\* pointInRotatedRect with the boundary left out.
pointInRotatedRectOpen(px, py, rect) ==
  LET cos == Cos(-rect.angle)
      sin == Sin(-rect.angle)
      rx == MulTrig(cos, px - rect.x) - MulTrig(sin, py - rect.y)
      ry == MulTrig(sin, px - rect.x) + MulTrig(cos, py - rect.y)
  IN  Abs(rx) * 2 < rect.w /\ Abs(ry) * 2 < rect.h

pointInRotatedRect(px, py, rect) ==
  LET cos == Cos(-rect.angle)
      sin == Sin(-rect.angle)
      rx == MulTrig(cos, px - rect.x) - MulTrig(sin, py - rect.y)
      ry == MulTrig(sin, px - rect.x) + MulTrig(cos, py - rect.y)
  IN  Abs(rx) * 2 <= rect.w /\ Abs(ry) * 2 <= rect.h

\* angleDelta without the shift by pi before the remainder.
angleDeltaNoShift(a, b) ==
  LET d == JsRem(a - b, TwoPi) - Pi
  IN  IF d < -Pi THEN d + TwoPi ELSE d

\* angleDelta that takes the plain difference.
angleDeltaNoWrap(a, b) == a - b

angleDelta(a, b) ==
  LET d == JsRem(a - b + Pi, TwoPi) - Pi
  IN  IF d < -Pi THEN d + TwoPi ELSE d

\* ---------------------------------------------------------------- state

VARIABLES
  car,       \* carRef.current: x, y, angle, v, steer
  keys,      \* keysRef.current, an absent key reading as FALSE
  status,    \* the status state: "park", "success" or "crash"
  time,      \* the time state
  attempts,  \* the attempts state
  seen,      \* the status update() reads: the game-loop effect runs once, at
             \* mount, and its loop keeps calling the update() of that render
  tick,      \* milliseconds from one frame callback to the next
  events,    \* key and touch events so far
  mounted,   \* the component is mounted: its effects ran, no cleanup yet
  rafRef,    \* rafRef.current: the handle of the last frame request
  pending,   \* handles of the frame requests not yet run nor cancelled
  held       \* the keys and touch buttons whose last event was a press

\* The state of the frame loop.
frameVars == <<mounted, rafRef, pending>>

vars ==
  <<car, keys, status, time, attempts, seen, tick, events, frameVars, held>>

\* ------------------------------------------------------------ update(dt)

MaxSpeed == 180000
Drag == 30
AccelRate == 120
SteerStrength == 2100

accelOf(k) == IF k["ArrowUp"] \/ k["w"] THEN AccelRate ELSE 0
brakeOf(k) == IF k["ArrowDown"] \/ k["s"] THEN AccelRate ELSE 0
steerLeftOf(k) == IF k["ArrowLeft"] \/ k["a"] THEN 1 ELSE 0
steerRightOf(k) == IF k["ArrowRight"] \/ k["d"] THEN 1 ELSE 0

\* Longitudinal without the clamp to +-maxSpeed.
LongitudinalNoClamp(v, k, dt) ==
  LET accel == accelOf(k)
      brake == brakeOf(k)
      unclamped == v + (accel - brake) * dt
      dragged == unclamped - Sign(unclamped) * Drag * dt
  IN  IF accel = 0 /\ brake = 0
      THEN IF Abs(dragged) < 2000 THEN 0 ELSE dragged
      ELSE unclamped

\* Longitudinal with the drag taken off whatever the direction of travel.
LongitudinalDragNoSign(v, k, dt) ==
  LET accel == accelOf(k)
      brake == brakeOf(k)
      clamped == Max(-MaxSpeed, Min(MaxSpeed, v + (accel - brake) * dt))
      dragged == clamped - Drag * dt
  IN  IF accel = 0 /\ brake = 0
      THEN IF Abs(dragged) < 2000 THEN 0 ELSE dragged
      ELSE clamped

\* Longitudinal with the drag applied whether or not a pedal is down.
LongitudinalAlwaysDrag(v, k, dt) ==
  LET clamped == Max(-MaxSpeed, Min(MaxSpeed, v + (accelOf(k) - brakeOf(k)) * dt))
      dragged == clamped - Sign(clamped) * Drag * dt
  IN  IF Abs(dragged) < 2000 THEN 0 ELSE dragged

\* Longitudinal without the snap to 0 below 2 units per second.
LongitudinalNoSnap(v, k, dt) ==
  LET accel == accelOf(k)
      brake == brakeOf(k)
      clamped == Max(-MaxSpeed, Min(MaxSpeed, v + (accel - brake) * dt))
  IN  IF accel = 0 /\ brake = 0
      THEN clamped - Sign(clamped) * Drag * dt
      ELSE clamped

\* car.v after the longitudinal dynamics: thrust, clamp, drag.
Longitudinal(v, k, dt) ==
  LET accel == accelOf(k)
      brake == brakeOf(k)
      thrust == (accel - brake) * dt
      clamped == Max(-MaxSpeed, Min(MaxSpeed, v + thrust))
      dragged == clamped - Sign(clamped) * Drag * dt
  IN  IF accel = 0 /\ brake = 0
      THEN IF Abs(dragged) < 2000 THEN 0 ELSE dragged
      ELSE clamped

\* Steer at full strength whatever the speed.
SteerNoSpeedFactor(v, k) ==
  (steerLeftOf(k) - steerRightOf(k)) * SteerStrength * 1000

\* car.steer, in micro-radians per second, for the velocity v.
Steer(v, k) ==
  LET speedNum == Min(MaxSpeed, Abs(v))
      steerDir == steerLeftOf(k) - steerRightOf(k)
  IN  steerDir * RoundDiv(SteerStrength * speedNum, MaxSpeed \div 1000)

\* Turn that takes no account of the direction of travel.
TurnNoReverse(v, k, dt) == RoundDiv(Steer(v, k) * dt, 1000)

\* What a step at velocity v adds to car.angle, in micro-radians.
Turn(v, k, dt) ==
  RoundDiv(Steer(v, k) * dt, 1000) * (IF v >= 0 THEN 1 ELSE -1)

\* The car after the dynamics, the steering and the position integration.
Moved(c, k, dt) ==
  LET v == Longitudinal(c.v, k, dt)
      steer == Steer(v, k)
      angle == c.angle + Turn(v, k, dt)
      dist == RoundDiv(v * dt, 1000)
  IN  [x |-> c.x + MulTrig(Cos(angle), dist),
       y |-> c.y + MulTrig(Sin(angle), dist),
       angle |-> angle, v |-> v, steer |-> steer]

\* find that looks at the first obstacle only.
findFirstOnly(c, obstacles) ==
  IF /\ Len(obstacles) > 0
     /\ circleRectIntersect(c.x, c.y, CarRadius, obstacles[1])
  THEN 1 ELSE 0

\* obstacles.find(...): the index of the first obstacle the car's circle
\* intersects, 0 when there is none (undefined).
find(c, obstacles) ==
  LET hits == {i \in 1..Len(obstacles) :
                 circleRectIntersect(c.x, c.y, CarRadius, obstacles[i])}
  IN  IF hits = {} THEN 0
      ELSE CHOOSE i \in hits : \A j \in hits : i <= j

\* if (hit): boundsRef.current.find(...) found an obstacle.
Hit(c) == find(c, boundsRef) # 0

\* inSpot && speedOk && angleOk
Parked(c) ==
  /\ pointInRotatedRect(c.x, c.y, spotRef)
  /\ Abs(c.v) < 10000
  /\ Abs(angleDelta(c.angle, spotRef.angle)) < 250000

\* update(dt), reading the key map k. Its status is the one of the render
\* that made it (seen), its setStatus and setTime write the current state.
update(k, dt) ==
  IF seen # "park"
  THEN UNCHANGED <<car, status, time>>
  ELSE LET c == Moved(car, k, dt)
       IN  /\ time' = time + dt
           /\ IF Hit(c)
              THEN status' = "crash" /\ car' = [c EXCEPT !.v = 0]
              ELSE IF Parked(c)
              THEN status' = "success" /\ car' = [c EXCEPT !.v = 0]
              ELSE status' = status /\ car' = c

\* reset that leaves the clock running.
resetKeepTime(hard) ==
  /\ status' = "park"
  /\ time' = time
  /\ attempts' = IF hard THEN attempts + 1 ELSE attempts
  /\ car' = StartCar

\* reset that never counts the restart.
resetNoCount(hard) ==
  /\ status' = "park"
  /\ time' = 0
  /\ attempts' = attempts
  /\ car' = StartCar

reset(hard) ==
  /\ status' = "park"
  /\ time' = 0
  /\ attempts' = IF hard THEN attempts + 1 ELSE attempts
  /\ car' = StartCar

\* ---------------------------------------------------------------- actions

\* requestAnimationFrame(loop): a handle that differs from the handle h of
\* the request being run.
requestAnimationFrame(h) == 1 - h

\* loop that does not store the handle of the request it makes.
loopKeepsHandle ==
  /\ time < MaxTime
  /\ \E h \in pending :
       /\ update(keys, Min(50, tick))
       /\ pending' = (pending \ {h}) \cup {requestAnimationFrame(h)}
       /\ rafRef' = rafRef
  /\ UNCHANGED <<keys, attempts, seen, tick, events, mounted, held>>

\* One frame of the loop, run for a pending request: dt is the time since the
\* last frame, at most 50 ms; the frame ends by requesting the next one.
loop ==
  /\ time < MaxTime
  /\ \E h \in pending :
       /\ update(keys, Min(50, tick))
       /\ pending' = (pending \ {h}) \cup {requestAnimationFrame(h)}
       /\ rafRef' = requestAnimationFrame(h)
  /\ UNCHANGED <<keys, attempts, seen, tick, events, mounted, held>>

\* The component unmounts: the cleanup of the game-loop effect cancels the
\* request rafRef holds, the other cleanups remove the listeners.
unmount ==
  /\ mounted
  /\ mounted' = FALSE
  /\ pending' = pending \ {rafRef}
  /\ UNCHANGED <<car, keys, status, time, attempts, seen, tick, events, rafRef>>
  /\ UNCHANGED held

\* One more key or touch event, of the MaxKeyEvents a run has.
KeyEvent ==
  /\ events < MaxKeyEvents
  /\ events' = events + 1

\* keydown of a key update() reads.
down(key) ==
  /\ mounted
  /\ keys' = [keys EXCEPT ![key] = TRUE]
  /\ held' = held \cup {<<"key", key>>}
  /\ UNCHANGED <<car, status, time, attempts, seen, tick, frameVars>>

up(key) ==
  /\ mounted
  /\ keys' = [keys EXCEPT ![key] = FALSE]
  /\ held' = held \ {<<"key", key>>}
  /\ UNCHANGED <<car, status, time, attempts, seen, tick, frameVars>>

\* A touch button pressed (isDown) or released; a touch ends on the button
\* it began on.
press(key, isDown) ==
  /\ mounted
  /\ isDown \/ <<"touch", key>> \in held
  /\ keys' = [keys EXCEPT ![key] = isDown]
  /\ held' = IF isDown THEN held \cup {<<"touch", key>>}
                       ELSE held \ {<<"touch", key>>}
  /\ UNCHANGED <<car, status, time, attempts, seen, tick, frameVars>>

\* keydown of r or R: onKey restarts.
onKey ==
  /\ mounted
  /\ attempts < MaxAttempts
  /\ reset(TRUE)
  /\ UNCHANGED <<keys, seen, tick, events, frameVars, held>>

\* The Restart button, rendered only when the round is over.
RestartButton ==
  /\ mounted
  /\ status # "park"
  /\ attempts < MaxAttempts
  /\ reset(TRUE)
  /\ UNCHANGED <<keys, seen, tick, events, frameVars, held>>

\* Frame periods: two callbacks with the same timestamp, and a display so
\* slow that the loop caps the period at 50 ms.
Ticks == {0, 80}

Init ==
  /\ car = StartCar
  /\ keys = [k \in DriveKeys |-> FALSE]
  /\ status = "park"
  /\ time = 0
  /\ attempts = 0
  /\ seen = "park"
  /\ tick \in Ticks
  /\ events = 0
  /\ mounted = TRUE
  /\ rafRef = 0
  /\ pending = {0}
  /\ held = {}

Next ==
  \/ loop
  \/ \E key \in DriveKeys : KeyEvent /\ down(key)
  \/ \E key \in DriveKeys : KeyEvent /\ up(key)
  \/ \E key \in TouchKeys, isDown \in BOOLEAN : KeyEvent /\ press(key, isDown)
  \/ onKey
  \/ RestartButton
  \/ unmount

Spec == Init /\ [][Next]_vars

\* ------------------------------------------------- the handlers of the keys

\* The key and touch handlers alone, in every order and any number of times,
\* for keys that go down and come up while the window has the focus.
NextKeys ==
  \/ \E key \in DriveKeys : down(key) /\ UNCHANGED events
  \/ \E key \in DriveKeys :
       <<"key", key>> \in held /\ up(key) /\ UNCHANGED events
  \/ \E key \in TouchKeys, isDown \in BOOLEAN :
       press(key, isDown) /\ UNCHANGED events

SpecKeys == Init /\ [][NextKeys]_vars

\* ------------------------------------------- update() on enumerated states

\* A car at rest or under way at a pose the car can be driven to.
CarAt(x, y, angle, v) == [x |-> x, y |-> y, angle |-> angle, v |-> v, steer |-> 0]

\* Poses: the start; the centre of the spot, facing along it, seven turns on,
\* and facing the other way round the circle.
MovePoses == {
  <<140000, 420000, -(Pi \div 2)>>,
  <<720000, 160000, Pi>>,
  <<720000, 160000, Pi + 7 * TwoPi>>,
  <<720000, 160000, -Pi>> }
TestSpeeds == {0, 1500, -1500, 9000, 12000, -12000, 177000, 180000, -180000}

\* Poses at rest: touching the bottom wall and 1 mm into it; at the edges of
\* the spot and just outside them; at and just inside the angle tolerance.
RestPoses == {
  <<140000, 483586, -(Pi \div 2)>>,
  <<140000, 483587, -(Pi \div 2)>>,
  <<755000, 160000, Pi>>,
  <<754700, 160000, Pi>>,
  <<755001, 160000, Pi>>,
  <<720000, 176000, Pi>>,
  <<720000, 176001, Pi>>,
  <<720000, 160000, Pi + 249999>>,
  <<720000, 160000, Pi + 250000>>,
  <<720000, 160000, Pi - 249999>>,
  <<720000, 160000, 0>> }

TestCars ==
  {CarAt(p[1], p[2], p[3], v) : p \in MovePoses, v \in TestSpeeds}
    \cup {CarAt(p[1], p[2], p[3], 0) : p \in RestPoses}

\* The key map with exactly the keys of P held.
Snapshot(P) == [k \in DriveKeys |-> k \in P]
TestSnapshots ==
  {Snapshot(P) : P \in SUBSET TouchKeys}
    \cup {Snapshot({k}) : k \in DriveKeys \ TouchKeys}

\* The dt update() is called with, held for the run. The loop has no lower
\* cap: a frame stamped before the last reading of the clock gives dt < 0.
StepDts == {-10, 0, 10, 20, 50, 100}

\* update(dt) called with the held keys and the held dt.
Step ==
  /\ time < MaxTime
  /\ time > -MaxTime
  /\ update(keys, tick)
  /\ UNCHANGED <<keys, attempts, seen, tick, events, frameVars, held>>

InitStep ==
  /\ car \in TestCars
  /\ keys \in TestSnapshots
  /\ status = "park"
  /\ time = 0
  /\ attempts = 0
  /\ seen = "park"
  /\ tick \in StepDts
  /\ events = 0
  /\ mounted = TRUE
  /\ rafRef = 0
  /\ pending = {0}
  /\ held = {}

NextStep ==
  \/ Step
  \/ onKey
  \/ RestartButton

SpecStep == InitStep /\ [][NextStep]_vars

\* update() on the enumerated cars with no pedal held.
InitCoast ==
  /\ InitStep
  /\ accelOf(keys) = 0
  /\ brakeOf(keys) = 0

\* Step can be taken and changes the state: its guard holds and time moves.
StepEnabled == time < MaxTime /\ time > -MaxTime /\ tick # 0

\* The loop requests the next frame at the end of every frame, so update()
\* is called again and again. The last conjunct is WF_vars(Step) written out,
\* with StepEnabled for ENABLED <<Step>>_vars.
SpecCoast ==
  /\ InitCoast
  /\ [][Step]_vars
  /\ ([]<>(~StepEnabled) \/ []<><<Step>>_vars)

\* ------------------------------------------------------------------ claims

\* A step of the behaviour that is not a restart.
NoReset == attempts' = attempts
Terminal(st) == st \in {"crash", "success"}

\* C1: once the status is crash or success, the velocity is 0 and the position
\* does not change in any later frame, until reset() is called.
C1_TerminalFreezesCar ==
  [][(Terminal(status) /\ NoReset) =>
       /\ car.v = 0
       /\ car'.v = 0
       /\ car'.x = car.x
       /\ car'.y = car.y]_vars

\* C2: the status only changes from park to success, from park to crash, and
\* back to park by reset(); stated for the frame times the loop can pass
\* (dt <= 50 ms).
C2_OneWayStatus ==
  [][(tick <= 50 /\ status' # status) =>
       \/ status = "park" /\ Terminal(status') /\ NoReset
       \/ status' = "park" /\ attempts' = attempts + 1]_vars

\* C3: the velocity is within [-maxSpeed, +maxSpeed] after any number of
\* steps, for every input snapshot and every dt >= 0.
C3_VelocityBounded == tick >= 0 => Abs(car.v) <= MaxSpeed
\* The clamp has acted: full speed ahead, or full speed astern, after a step.
C3_Witness == /\ Abs(car.v) = MaxSpeed
              /\ time > 0
              /\ (accelOf(keys) > 0 \/ brakeOf(keys) > 0)
              /\ status = "park"

\* C5: every reset(true), from any state, adds exactly 1 to attempts, sets the
\* time to 0 and the status to park, and puts the car at the start pose; N
\* calls in a row add exactly N.
C5_ResetSemantics ==
  [][(onKey \/ RestartButton) =>
       /\ attempts' = attempts + 1
       /\ time' = 0
       /\ status' = "park"
       /\ car' = StartCar
       /\ car'.x = 140000 /\ car'.y = 420000
       /\ car'.angle = -(Pi \div 2) /\ car'.v = 0]_vars
\* Two restarts have been made, the round is fresh.
C5_Witness == attempts = 2 /\ time = 0 /\ status = "park" /\ car = StartCar

\* C6: a frame run while the status is crash or success leaves the time
\* unchanged.
C6_TimeFrozenWhenTerminal ==
  [][(Terminal(status) /\ NoReset) => time' = time]_vars

\* C7: at rest with neither accelerate nor brake active, the velocity stays 0
\* whatever the steering input and dt.
C7_NoDriftAtRest ==
  [][(car.v = 0 /\ accelOf(keys) = 0 /\ brakeOf(keys) = 0) => car'.v = 0]_vars
\* A frame has run at rest with a steering key held and no pedal.
C7_Witness ==
  /\ car.v = 0
  /\ time > 0
  /\ status = "park"
  /\ accelOf(keys) = 0 /\ brakeOf(keys) = 0
  /\ steerLeftOf(keys) + steerRightOf(keys) = 1

\* The car's circle touches rect: the closest point of rect is at distance
\* exactly CarRadius from the centre.
Tangent(c, rect) ==
  LET dx == Abs(c.x - clamp(c.x, rect.x, rect.x + rect.w))
      dy == Abs(c.y - clamp(c.y, rect.y, rect.y + rect.h))
  IN  /\ dx <= CarRadius
      /\ dy <= CarRadius
      /\ dx * dx + dy * dy = CarRadius * CarRadius
\* The closest point of rect is further than CarRadius from the centre.
Clear(c, rect) ==
  LET dx == Abs(c.x - clamp(c.x, rect.x, rect.x + rect.w))
      dy == Abs(c.y - clamp(c.y, rect.y, rect.y + rect.h))
  IN  \/ dx > CarRadius
      \/ dy > CarRadius
      \/ dx * dx + dy * dy > CarRadius * CarRadius
\* The car touches an obstacle and overlaps none.
TangentOnly(c) ==
  /\ \E i \in 1..Len(boundsRef) : Tangent(c, boundsRef[i])
  /\ \A i \in 1..Len(boundsRef) : Tangent(c, boundsRef[i]) \/ Clear(c, boundsRef[i])

\* C8: a step that leaves the car's circle exactly tangent to an obstacle
\* (squared distance equal to the squared radius) does not crash.
C8_TangentIsNoCollision ==
  [][(status = "park" /\ NoReset /\ TangentOnly(car')) => status' = "park"]_vars
\* A frame has run with the car touching the bottom wall, and the round goes on.
C8_Witness == TangentOnly(car) /\ time > 0 /\ status = "park"

\* C9: from the centre of the spot, heading exactly spot.angle, at rest and
\* with no pedal, one step yields success.
C9_ParkedAtCentre ==
  [][(/\ status = "park"
      /\ NoReset
      /\ car.x = spotRef.x /\ car.y = spotRef.y
      /\ car.angle = spotRef.angle
      /\ car.v = 0
      /\ accelOf(keys) = 0 /\ brakeOf(keys) = 0) => status' = "success"]_vars
\* One step has been made from the centre of the spot and the round is won.
C9_Witness ==
  /\ status = "success"
  /\ car.x = spotRef.x /\ car.y = spotRef.y
  /\ car.angle = spotRef.angle
  /\ car.v = 0
  /\ time = tick

\* A step with accelerate held and brake released adds accelRate * dt, capped at
\* maxSpeed, with no drag; the velocity is then zeroed if the step ends the
\* round.
C10_StepAdds ==
  (accelOf(keys) > 0 /\ brakeOf(keys) = 0 /\ NoReset /\ time' > time) =>
     \/ car'.v = Min(car.v + AccelRate * (time' - time), MaxSpeed)
     \/ car'.v = 0 /\ (Hit(car') \/ Parked(car'))
\* A round begun by reset() starts at rest at time 0: with accelerate held the
\* velocity is accelRate * time up to the cap, and 120 after ten steps of 100 ms.
C10_FromRest ==
  (/\ attempts > 0 /\ tick >= 0 /\ status = "park"
   /\ accelOf(keys) > 0 /\ brakeOf(keys) = 0) =>
     /\ car.v = Min(AccelRate * time, MaxSpeed)
     /\ (tick = 100 /\ time = 1000 => car.v = 120000)
\* C10: with accelerate held and brake released each step adds exactly
\* accelRate * dt to the velocity, capped at maxSpeed and with no drag; a car
\* starting at rest that accelerates for ten steps of dt = 0.1 has velocity
\* exactly 120.
C10_Acceleration == [][C10_StepAdds]_vars /\ []C10_FromRest
\* Ten steps of 100 ms from rest with accelerate held.
C10_Witness ==
  /\ attempts > 0
  /\ status = "park"
  /\ keys = Snapshot({"ArrowUp"})
  /\ tick = 100
  /\ time = 1000
  /\ car.v = 120000

\* C11: a step with zero or negative dt leaves the velocity, the heading, the
\* position, the status and the time unchanged, whatever the keys and the
\* state before.
C11_NonPositiveDtIsNoOp ==
  [][(tick <= 0 /\ NoReset) =>
       /\ car'.v = car.v
       /\ car'.angle = car.angle
       /\ car'.x = car.x
       /\ car'.y = car.y
       /\ status' = status
       /\ time' = time]_vars

\* C12: cancelling the frame loop is one call, after which no frame is
\* pending and no step ever runs: the car, the status and the time stay as
\* the last complete frame left them.
C12_CancelStopsLoop ==
  /\ [][~mounted => UNCHANGED <<car, status, time>>]_vars
  /\ [](~mounted => pending = {})

C12_Witness == ~mounted /\ time >= 100 /\ car # StartCar

\* C13 as stated: attempts starts at 0 and only goes up, by one, on a reset
\* made after the round reached crash or success.
C13_CountsFinishedRounds ==
  /\ attempts = 0
  /\ [][attempts' # attempts =>
          attempts' = attempts + 1 /\ Terminal(status)]_vars

\* C13: attempts is 0 at the first start, no step changes it, and every
\* explicit reset, whatever the status it is made in, adds exactly one: it
\* counts the manual restarts, those made in mid-round included.
C13_CountsRestarts ==
  /\ attempts = 0
  /\ [][/\ attempts' # attempts =>
             /\ attempts' = attempts + 1
             /\ status' = "park" /\ time' = 0 /\ car' = StartCar
        /\ time' > time => attempts' = attempts
        /\ time' < time => attempts' = attempts + 1]_vars

\* A restart counted although no key was ever pressed, so that the round
\* cannot have ended, and the frames of the new round running.
C13_Witness == attempts = 1 /\ events = 0 /\ status = "park" /\ time > 0

\* The car's circle and rect overlap: beside a side of rect the centre is
\* nearer than CarRadius to that side, off a corner it is nearer than
\* CarRadius to the corner, and a centre inside rect always overlaps.
Overlaps(c, rect) ==
  LET left == rect.x
      right == rect.x + rect.w
      top == rect.y
      bottom == rect.y + rect.h
      gapX == IF c.x < left THEN left - c.x
              ELSE IF c.x > right THEN c.x - right ELSE 0
      gapY == IF c.y < top THEN top - c.y
              ELSE IF c.y > bottom THEN c.y - bottom ELSE 0
  IN  IF gapX = 0 THEN gapY < CarRadius
      ELSE IF gapY = 0 THEN gapX < CarRadius
      ELSE /\ gapX < CarRadius
           /\ gapY < CarRadius
           /\ gapX * gapX + gapY * gapY < CarRadius * CarRadius
\* The centre of the car is in the spot or on its edge; the spot is turned
\* by half a turn, which maps the rectangle onto itself.
InsideSpot(c) ==
  /\ Abs(c.x - spotRef.x) * 2 <= spotRef.w
  /\ Abs(c.y - spotRef.y) * 2 <= spotRef.h
\* The heading is within 0.25 rad of the spot's, whole turns apart or not.
HeadingClose(c) ==
  \E n \in -8..8 : Abs(c.angle - spotRef.angle - n * TwoPi) < 250000

\* C14: a step made while the status is park yields success exactly when, at
\* the new state, no obstacle overlaps the car's circle, the centre is in the
\* spot (edge included), |v| < 10 and the heading is within 0.25 rad of the
\* spot's; a step that yields success sets the velocity to 0.
C14_SuccessIff ==
  [][(status = "park" /\ NoReset) =>
       LET v == Longitudinal(car.v, keys, tick)
       IN  /\ status' = "success" <=>
                /\ \A i \in 1..Len(boundsRef) : ~Overlaps(car', boundsRef[i])
                /\ InsideSpot(car')
                /\ Abs(v) < 10000
                /\ HeadingClose(car')
           /\ status' = "success" => car'.v = 0]_vars

\* One step has parked the car standing on the edge of the spot.
C14_Witness ==
  /\ status = "success"
  /\ car.x = spotRef.x + spotRef.w \div 2
  /\ car.v = 0
  /\ time = tick
  /\ attempts = 0

\* The obstacle list turned round by n places, and back to front.
Rotated(n) ==
  [i \in 1..Len(boundsRef) |-> boundsRef[((i + n - 1) % Len(boundsRef)) + 1]]
Reversed == [i \in 1..Len(boundsRef) |-> boundsRef[Len(boundsRef) + 1 - i]]
Reordered == {Rotated(n) : n \in 0..(Len(boundsRef) - 1)} \cup {Reversed}

\* C15: a step made while the status is park yields crash, with the velocity
\* set to 0, exactly when the car's circle at the new position overlaps at
\* least one obstacle, whichever it is; searching the obstacles in another
\* order gives the same verdict.
C15_CrashIff ==
  [][(status = "park" /\ NoReset) =>
       /\ status' = "crash" <=>
            \E i \in 1..Len(boundsRef) : Overlaps(car', boundsRef[i])
       /\ status' = "crash" => car'.v = 0
       /\ \A obstacles \in Reordered :
            status' = "crash" <=> find(car', obstacles) # 0]_vars

\* One step has crashed the car standing 1 mm into the bottom wall, the
\* second obstacle of the list.
C15_Witness ==
  /\ status = "crash"
  /\ Overlaps(car, boundsRef[2])
  /\ car.v = 0
  /\ time = tick
  /\ attempts = 0

\* C16: a step changes the heading only if exactly one of steer-left and
\* steer-right is active and the velocity after the longitudinal update is
\* not 0: the car does not turn on the spot.
C16_NoPivotInPlace ==
  [][(NoReset /\ car'.angle # car.angle) =>
       /\ steerLeftOf(keys) + steerRightOf(keys) = 1
       /\ Longitudinal(car.v, keys, tick) # 0]_vars

\* Frames have run with steer-left held and the car at rest: it still stands
\* at the start, heading as it did.
C16_Witness ==
  /\ keys["ArrowLeft"] /\ ~keys["ArrowRight"]
  /\ car = StartCar
  /\ time > 0
  /\ attempts = 0

\* The headings the enumerated cars start with.
InitialAngles == {p[3] : p \in MovePoses \cup RestPoses}

\* C17: with the same steering keys, the same dt and the same speed, what a
\* step adds to the heading at velocity v is the exact negation of what it
\* adds at velocity -v.
C17_ReverseInvertsSteering ==
  [][NoReset =>
       LET v == Longitudinal(car.v, keys, tick)
       IN  car'.angle - car.angle = -Turn(-v, keys, tick)]_vars

\* The car has turned while going astern.
C17_Witness ==
  /\ car.v < 0
  /\ car.steer # 0
  /\ car.angle \notin InitialAngles
  /\ time > 0

\* No pedal is held and the dt of the steps is in (0, 0.05].
Coasting ==
  /\ accelOf(keys) = 0 /\ brakeOf(keys) = 0
  /\ tick > 0 /\ tick <= 50
\* A coasting step: |v| goes down, by drag * dt or to exactly 0, the sign of
\* v never flips, and a car at rest stays at rest.
C18_StepSlows ==
  (Coasting /\ NoReset) =>
     /\ car.v # 0 => /\ Abs(car'.v) < Abs(car.v)
                     /\ car'.v = 0 \/ Sign(car'.v) = Sign(car.v)
                     /\ car'.v = 0 \/ Abs(car'.v) = Abs(car.v) - Drag * tick
     /\ car.v = 0 => car'.v = 0
\* The steps left before time reaches MaxTime are enough for the drag to
\* take |v| below 2.
TimeToStop == Coasting /\ (Abs(car.v) \div (Drag * tick) + 1) * tick <= MaxTime - time

\* C18: with no pedal held and dt in (0, 0.05], every step makes |v| strictly
\* smaller without changing the sign of v, v reaches exactly 0 after finitely
\* many steps, and then it stays 0.
C18_DragStops ==
  /\ [][C18_StepSlows]_vars
  /\ TimeToStop ~> car.v = 0

\* The car has coasted away from where it started and has come to rest with
\* the round still on.
C18_Witness ==
  /\ Coasting
  /\ car.v = 0
  /\ status = "park"
  /\ attempts = 0
  /\ car.x = StartCar.x /\ car.y < StartCar.y

\* C19 as stated: the difference the goal test uses is congruent to the
\* heading minus the spot's angle modulo 2*pi and lies in (-pi, pi].
C19_RangeOpenBelow ==
  LET d == angleDelta(car.angle, spotRef.angle)
  IN  /\ (car.angle - spotRef.angle - d) % TwoPi = 0
      /\ d > -Pi
      /\ d <= Pi

\* C19: for any heading, whole turns included, the difference the goal test
\* uses is congruent to the heading minus the spot's angle modulo 2*pi and
\* lies in [-pi, pi): it is the shortest signed difference, and a heading
\* exactly opposite to the spot's gives -pi.
C19_ShortestDifference ==
  LET d == angleDelta(car.angle, spotRef.angle)
  IN  /\ (car.angle - spotRef.angle - d) % TwoPi = 0
      /\ d >= -Pi
      /\ d < Pi

\* A step has run the goal test on a car in the spot heading exactly the
\* opposite way: the difference is -pi and the round goes on.
C19_Witness ==
  /\ angleDelta(car.angle, spotRef.angle) = -Pi
  /\ InsideSpot(car)
  /\ status = "park"
  /\ time > 0

\* The keys and the touch button that work each control.
Sources(arrow, letter) == {<<"key", arrow>>, <<"key", letter>>, <<"touch", arrow>>}

\* C20: whatever the order of the key and touch events, a control reads
\* active exactly when at least one of its keys or its touch button is held;
\* with everything released all four controls read inactive.
C20_ActiveIffHeld ==
  /\ accelOf(keys) > 0 <=> Sources("ArrowUp", "w") \cap held # {}
  /\ brakeOf(keys) > 0 <=> Sources("ArrowDown", "s") \cap held # {}
  /\ steerLeftOf(keys) > 0 <=> Sources("ArrowLeft", "a") \cap held # {}
  /\ steerRightOf(keys) > 0 <=> Sources("ArrowRight", "d") \cap held # {}

====
